---- MODULE Spec2Model ----
(***************************************************************************)
(* Canonical Huffman code tables of phuffman (CodeTableAdapter.cpp) and    *)
(* the block-parallel decoder declared in test/cpu_decode.hpp.             *)
(*                                                                         *)
(* The two CodeTableAdapter constructors, operator<< and operator== are    *)
(* translated from CodeTableAdapter.cpp.  CodeTableAdapter.hpp,            *)
(* constants.h and the decoder's body are not among the sources: the node  *)
(* type, the Code record, the constants and the decoder follow the         *)
(* written specification.                                                  *)
(***************************************************************************)
EXTENDS Integers, Sequences, FiniteSets, TLC

\* ------------------------------------------------------------------ bounds
\* Number of symbols of the alphabet (256 in the program).
NumSymbols == 4
\* Largest raw data buffer the table constructor accepts in the model.
MaxDataLen == 5
\* Largest in-range codelength offered to the length-array constructor.
MaxLen == 3
\* Largest raw data buffer that is encoded and decoded block by block.
MaxDecodeLen == 4
\* Largest raw data buffer whose codelengths are compared with every other
\* assignment of lengths, and the largest length of such an assignment.
MaxResolveLen == 4
MaxAltLen == 3
\* Width of one word of the encoded stream, in bits.
WordBits == 3
\* Largest number of words per block.
MaxBlockWords == 2

\* --------------------------------------------------------------- constants
ALPHABET_SIZE == NumSymbols
MAXIMUM_DATABLOCK_SIZE == MaxDataLen
\* The bit-width ceiling of a stored bit-pattern.
MAXIMUM_CODELENGTH == 32

Symbols == 0 .. (ALPHABET_SIZE - 1)

\* ----------------------------------------------------------------- helpers
Range(s) == {s[i] : i \in 1 .. Len(s)}

\* x >> n on unsigned integers
RightShift(x, n) == x \div (2 ^ n)

\* conversion of a value to char (8 bits, signed) and of a char to unsigned char
ToChar(v) == IF (v % 256) > 127 THEN (v % 256) - 256 ELSE v % 256
ToUnsignedChar(c) == c % 256

RECURSIVE SeqsUpTo(_, _)
SeqsUpTo(S, n) ==
    IF n = 0 THEN {<<>>}
    ELSE LET shorter == SeqsUpTo(S, n - 1)
         IN  shorter \cup {Append(s, x) : s \in {t \in shorter : Len(t) = n - 1}, x \in S}

\* ------------------------------------------------------ records of the code
\* Code: (codelength, code), built by CodeMake(codelength, code)
CodeMake(codelength, code) == [codelength |-> codelength, code |-> code]

FrequencyMake(symbol, frequency) == [symbol |-> symbol, frequency |-> frequency]

\* memset(_adaptee.codes, 0, sizeof(Code)*ALPHABET_SIZE)
ZeroCodes == [s \in Symbols |-> CodeMake(0, 0)]

\* a table no constructor has filled yet
NoTable == [built |-> FALSE, codes |-> ZeroCodes, max_codelength |-> 0]

\* What an access to an element that does not exist (begin() of an empty tree
\* or vector) can lead to: the constructor stops there, or it goes on with an
\* indeterminate value and returns a table whose codes are as memset left
\* them and whose max_codelength is whatever was read.
UndefinedOutcomes(what) ==
    {[fault |-> what, table |-> NoTable]}
        \cup {[fault |-> what,
               table |-> [built |-> TRUE, codes |-> ZeroCodes, max_codelength |-> m]] :
              m \in 0 .. MaxLen}

IsUndefined(fault) == fault \in {"undefined: tree.begin() of an empty tree",
                                 "undefined: leaves.begin() of an empty vector"}

\* ------------------------------------------------------------- comparators
LeafComparator_noTieBreak(left, right) == left.depth > right.depth

LeafComparator(left, right) ==
    \/ left.depth > right.depth
    \/ (left.depth = right.depth /\ left.element < right.element)

FrequencyComparator(left, right) == left.frequency < right.frequency

\* std::sort(first, last, comp): every arrangement of the elements in which no
\* later element compares less than an earlier one.
RECURSIVE sortLeaves(_)
sortLeaves(S) ==
    IF S = {} THEN {<<>>}
    ELSE UNION {{<<m>> \o r : r \in sortLeaves(S \ {m})} :
                m \in {x \in S : \A y \in S : ~LeafComparator(y, x)}}

RECURSIVE sortFrequencies(_)
sortFrequencies(S) ==
    IF S = {} THEN {<<>>}
    ELSE UNION {{<<m>> \o r : r \in sortFrequencies(S \ {m})} :
                m \in {x \in S : \A y \in S : ~FrequencyComparator(y, x)}}

\* ------------------------------------------------------- _countFrequencies
\* The possible results: the symbols that occur, with their counts, in an
\* order that is ascending by count.
countFrequencies(data) ==
    LET freqs == [s \in Symbols |-> Cardinality({i \in 1 .. Len(data) : data[i] = s})]
    IN  sortFrequencies({FrequencyMake(s, freqs[s]) : s \in {t \in Symbols : freqs[t] > 0}})

\* ------------------------------------------------------------------- Tree
\* A Tree entry is (first, second): the frequency and the node, a node being
\* the set of the leaf symbols below it.  tree->insert puts an entry after
\* the entries whose key is not greater.
TreeInsert(tree, entry) ==
    LET k == Cardinality({i \in 1 .. Len(tree) : tree[i].first <= entry.first})
    IN  SubSeq(tree, 1, k) \o <<entry>> \o SubSeq(tree, k + 1, Len(tree))

\* new DepthCounterNode(left, right): the new node owns both children, and
\* every leaf below it is one step further from the root.
DepthCounterNode_childrenOnly(left, right, depth) ==
    [s \in Symbols |->
        IF ({s} = left \/ {s} = right) THEN depth[s] + 1 ELSE depth[s]]

DepthCounterNode(left, right, depth) ==
    [s \in Symbols |-> IF s \in (left \cup right) THEN depth[s] + 1 ELSE depth[s]]

\* the constructor's loop over the frequencies: one leaf per symbol
RECURSIVE seedTree(_, _, _)
seedTree(frequencies, i, tree) ==
    IF i > Len(frequencies) THEN tree
    ELSE seedTree(frequencies, i + 1,
                  TreeInsert(tree, [first |-> frequencies[i].frequency,
                                    second |-> {frequencies[i].symbol}]))

\* -------------------------------------------------------------- _buildTree
RECURSIVE buildTreeLoop_mergesFirstAndLast(_, _, _, _)
buildTreeLoop_mergesFirstAndLast(tree, depth, i, size) ==
    IF ~(i < size - 1) THEN [tree |-> tree, depth |-> depth]
    ELSE LET first == tree[1]
             second == tree[Len(tree)]
             freq == first.first + second.first
             node == first.second \cup second.second
         IN  buildTreeLoop_mergesFirstAndLast(
                 TreeInsert(SubSeq(tree, 2, Len(tree) - 1), [first |-> freq, second |-> node]),
                 DepthCounterNode(first.second, second.second, depth), i + 1, size)

RECURSIVE buildTreeLoop(_, _, _, _)
buildTreeLoop(tree, depth, i, size) ==
    IF ~(i < size - 1) THEN [tree |-> tree, depth |-> depth]
    ELSE LET first == tree[1]
             second == tree[2]
             freq == first.first + second.first
             node == first.second \cup second.second
         IN  buildTreeLoop(
                 TreeInsert(SubSeq(tree, 3, Len(tree)), [first |-> freq, second |-> node]),
                 DepthCounterNode(first.second, second.second, depth), i + 1, size)

buildTree(tree, depth) ==
    LET r == buildTreeLoop(tree, depth, 0, Len(tree))
    IN  IF Len(r.tree) = 1
        THEN [fault |-> "none", depth |-> r.depth]
        ELSE [fault |-> "assert tree->size() == 1", depth |-> r.depth]

\* lines 70-78 of the raw-data constructor: the depth of every leaf
rootDepths_singleIsZero(tree, depth) ==
    IF Len(tree) > 1 THEN buildTree(tree, depth)
    ELSE IF Len(tree) = 0
         THEN [fault |-> "undefined: tree.begin() of an empty tree", depth |-> depth]
         ELSE [fault |-> "none", depth |-> depth]

rootDepths(tree, depth) ==
    IF Len(tree) > 1 THEN buildTree(tree, depth)
    ELSE IF Len(tree) = 0
         THEN [fault |-> "undefined: tree.begin() of an empty tree", depth |-> depth]
         ELSE IF Cardinality(tree[1].second) # 1
              THEN [fault |-> "assert root->isLeaf", depth |-> depth]
              ELSE [fault |-> "none",
                    depth |-> [s \in Symbols |-> IF s \in tree[1].second THEN 1 ELSE depth[s]]]

\* ------------------------------------------------------------- _buildTable
\* lines 153-163: the bit-pattern of the current leaf from the last code
nextCode_noShift(last_code, depth) == last_code.code + 1

nextCode_noIncrement(last_code, depth) ==
    IF depth = last_code.codelength
    THEN last_code.code + 1
    ELSE RightShift(last_code.code, last_code.codelength - depth)

nextCode(last_code, depth) ==
    IF depth = last_code.codelength
    THEN last_code.code + 1
    ELSE RightShift(last_code.code + 1, last_code.codelength - depth)

RECURSIVE buildTableLoop(_, _, _, _)
buildTableLoop(leaves, current_node, last_code, codes) ==
    IF current_node > Len(leaves) THEN [fault |-> "none", codes |-> codes]
    ELSE LET depth == leaves[current_node].depth
         IN  IF depth # last_code.codelength /\ ~(last_code.codelength > depth)
             THEN [fault |-> "assert last_code.codelength > depth", codes |-> codes]
             ELSE IF ~(depth < MAXIMUM_CODELENGTH)
                  THEN [fault |-> "assert last_code.codelength < MAXIMUM_CODELENGTH",
                        codes |-> codes]
                  ELSE LET code == CodeMake(depth, nextCode(last_code, depth))
                       IN  buildTableLoop(leaves, current_node + 1, code,
                               [codes EXCEPT ![leaves[current_node].element] = code])

\* leaves: the sorted vector of leaves; codes: the table as memset left it
buildTable(leaves, codes) ==
    IF Len(leaves) = 0
    THEN [fault |-> "undefined: leaves.begin() of an empty vector", table |-> NoTable]
    ELSE LET last_code == CodeMake(leaves[1].depth, 0)
             r == buildTableLoop(leaves, 2, last_code,
                                 [codes EXCEPT ![leaves[1].element] = last_code])
         IN  [fault |-> r.fault,
              table |-> IF r.fault = "none"
                        THEN [built |-> TRUE, codes |-> r.codes,
                              max_codelength |-> leaves[1].depth]
                        ELSE NoTable]

\* sort(leaves.begin(), leaves.end(), _LeafComparator); _buildTable(leaves)
\* leaves: the vector of leaves (element, depth) in the order of insertion
sortAndBuild(leaves) ==
    UNION {LET b == buildTable(sorted, ZeroCodes)
           IN  IF IsUndefined(b.fault) THEN UndefinedOutcomes(b.fault) ELSE {b} :
           sorted \in sortLeaves(Range(leaves))}

\* ------------------------------------ CodeTableAdapter(const unsigned char*, size_t)
\* The possible outcomes of the constructor for a buffer and one result of
\* _countFrequencies.
CodeTableAdapterFromData(data, frequencies) ==
    IF ~(Len(data) <= MAXIMUM_DATABLOCK_SIZE)
    THEN {[fault |-> "assert size <= MAXIMUM_DATABLOCK_SIZE", table |-> NoTable]}
    ELSE LET tree == seedTree(frequencies, 1, <<>>)
             r == rootDepths(tree, [s \in Symbols |-> 0])
             leaves == [i \in 1 .. Len(frequencies) |->
                           [element |-> frequencies[i].symbol,
                            depth |-> r.depth[frequencies[i].symbol]]]
         IN  IF IsUndefined(r.fault)
             THEN UndefinedOutcomes(r.fault)
             ELSE IF r.fault # "none"
                  THEN {[fault |-> r.fault, table |-> NoTable]}
                  ELSE sortAndBuild(leaves)

\* ------------------------------------------ CodeTableAdapter(const char*, size_t)
\* lines 30-38: one leaf per symbol of non-zero length, in symbol order
RECURSIVE leavesOfLengths_skipsLengthOne(_, _, _)
leavesOfLengths_skipsLengthOne(lengths, i, leaves) ==
    IF ~(i < ALPHABET_SIZE) THEN [fault |-> "none", leaves |-> leaves]
    ELSE IF lengths[i + 1] > 1
         THEN IF ~(lengths[i + 1] < MAXIMUM_CODELENGTH)
              THEN [fault |-> "assert lengths[i] < MAXIMUM_CODELENGTH", leaves |-> leaves]
              ELSE leavesOfLengths_skipsLengthOne(lengths, i + 1,
                       Append(leaves, [element |-> i, depth |-> lengths[i + 1]]))
         ELSE leavesOfLengths_skipsLengthOne(lengths, i + 1, leaves)

RECURSIVE leavesOfLengths(_, _, _)
leavesOfLengths(lengths, i, leaves) ==
    IF ~(i < ALPHABET_SIZE) THEN [fault |-> "none", leaves |-> leaves]
    ELSE IF lengths[i + 1] > 0
         THEN IF ~(lengths[i + 1] < MAXIMUM_CODELENGTH)
              THEN [fault |-> "assert lengths[i] < MAXIMUM_CODELENGTH", leaves |-> leaves]
              ELSE leavesOfLengths(lengths, i + 1,
                       Append(leaves, [element |-> i, depth |-> lengths[i + 1]]))
         ELSE leavesOfLengths(lengths, i + 1, leaves)

CodeTableAdapterFromLengths(file_data) ==
    IF Len(file_data) # ALPHABET_SIZE
    THEN {[fault |-> "assert size == ALPHABET_SIZE", table |-> NoTable]}
    ELSE LET lengths == [i \in 1 .. Len(file_data) |-> ToUnsignedChar(file_data[i])]
             r == leavesOfLengths(lengths, 0, <<>>)
         IN  IF r.fault # "none"
             THEN {[fault |-> r.fault, table |-> NoTable]}
             ELSE sortAndBuild(r.leaves)

\* ------------------------------------------------- operator<< and operator==
\* os << table[i].codelength for every symbol: one char per codelength
OutputOperator(table) == [i \in 1 .. ALPHABET_SIZE |-> ToChar(table.codes[i - 1].codelength)]

\* memcmp over the codes of both tables
EqualOperator(left_table, right_table) == left_table.codes = right_table.codes

\* ------------------------------------------------------ encoder (external)
\* The bits of one code, most significant first.
CodeBits(code) ==
    [i \in 1 .. code.codelength |-> RightShift(code.code, code.codelength - i) % 2]

RECURSIVE EncodeBits(_, _, _)
EncodeBits(d, codes, i) ==
    IF i > Len(d) THEN <<>>
    ELSE CodeBits(codes[d[i]]) \o EncodeBits(d, codes, i + 1)

\* the bit at which the code of the j-th symbol of d starts (from 0)
RECURSIVE StartBit(_, _, _)
StartBit(d, codes, j) ==
    IF j <= 1 THEN 0
    ELSE StartBit(d, codes, j - 1) + codes[d[j - 1]].codelength

MinOf(S) == CHOOSE x \in S : \A y \in S : x <= y

\* The encoded stream of d and its block metadata: the codes back to back,
\* the last word completed with zero bits, the stream cut into blocks of
\* block_int_size words, each block holding the symbols whose code starts in it.
Encode(d, table, block_int_size) ==
    LET payload == EncodeBits(d, table.codes, 1)
        word_count == (Len(payload) + WordBits - 1) \div WordBits
        trail == word_count * WordBits - Len(payload)
        block_bits == block_int_size * WordBits
        block_count == (word_count + block_int_size - 1) \div block_int_size
        members(k) == {j \in 1 .. Len(d) : StartBit(d, table.codes, j) \div block_bits = k}
    IN  [encoded_data |-> payload \o [i \in 1 .. trail |-> 0],
         encoded_data_trail_zeroes |-> trail,
         block_int_size |-> block_int_size,
         block_bit_offsets |->
             [k \in 0 .. (block_count - 1) |->
                 IF members(k) = {} THEN 0
                 ELSE MinOf({StartBit(d, table.codes, j) : j \in members(k)}) - k * block_bits],
         block_sym_sizes |-> [k \in 0 .. (block_count - 1) |-> Cardinality(members(k))],
         block_count |-> block_count]

\* ------------------------------------------------------- phuffman::CPU::Decode
Unwritten == -1

\* the number made of len bits from position pos (from 0), most significant first
RECURSIVE BitsValue(_, _, _)
BitsValue(bits, pos, len) ==
    IF len = 0 THEN 0
    ELSE 2 * BitsValue(bits, pos, len - 1) + bits[pos + len]

\* the bit position at which block k resumes decoding
BlockStartBit(e, k) == k * e.block_int_size * WordBits + e.block_bit_offsets[k]

\* the prefix sum of block_sym_sizes[0..k-1]
RECURSIVE OutputStart(_, _)
OutputStart(e, k) ==
    IF k = 0 THEN 0 ELSE OutputStart(e, k - 1) + e.block_sym_sizes[k - 1]

\* One symbol matched bit by bit against the table, up to max_codelength bits:
\* the symbol and the number of bits read, or -1 when no code matches.
RECURSIVE DecodeSymbol(_, _, _, _)
DecodeSymbol(table, bits, pos, len) ==
    IF len > table.max_codelength \/ pos + len > Len(bits)
    THEN [symbol |-> -1, length |-> 0]
    ELSE LET match == {s \in Symbols : /\ table.codes[s].codelength = len
                                       /\ table.codes[s].code = BitsValue(bits, pos, len)}
         IN  IF match # {}
             THEN [symbol |-> CHOOSE s \in match : TRUE, length |-> len]
             ELSE DecodeSymbol(table, bits, pos, len + 1)

\* ------------------------------------------------------------------ inputs
DataInputs ==
    SeqsUpTo(Symbols, MAXIMUM_DATABLOCK_SIZE)
        \cup {[i \in 1 .. (MAXIMUM_DATABLOCK_SIZE + 1) |-> s] : s \in Symbols}

DecodeDataInputs == SeqsUpTo(Symbols, MaxDecodeLen) \ {<<>>}

ResolveDataInputs == SeqsUpTo(Symbols, MaxResolveLen)

\* 256-entry length arrays, and arrays that break the caller's contract: a
\* length of MAXIMUM_CODELENGTH, a negative char, a buffer one entry short
LengthInputs ==
    [1 .. ALPHABET_SIZE -> 0 .. MaxLen]
        \cup {[i \in 1 .. ALPHABET_SIZE |-> IF i = 1 THEN v ELSE 1] :
              v \in {MAXIMUM_CODELENGTH, -1}}
        \cup {[i \in 1 .. (ALPHABET_SIZE - 1) |-> 1]}

\* ------------------------------------------------------------------- state
VARIABLES
    pc,           \* what the program has done so far
    data,         \* the raw buffer given to the raw-data constructor
    file,         \* the length array: operator<<'s output, the length constructor's input
    left,         \* the table of the raw-data constructor
    right,        \* the table of the length-array constructor
    fault,        \* the failed assertion or undefined access of the last constructor, "none" without one
    equal,        \* the result of operator==
    enc,          \* the encoded stream and its block metadata
    out,          \* the decoder's output buffer
    done,         \* per block, the number of symbols decoded
    bitpos,       \* per block, the bit position of the next code
    corrupt,      \* the blocks in which no code matched
    written       \* per output byte, the blocks that wrote it

vars == <<pc, data, file, left, right, fault, equal,
          enc, out, done, bitpos, corrupt, written>>

tableVars == <<data, file, left, right, fault, equal>>
decodeVars == <<enc, out, done, bitpos, corrupt, written>>

NoEncoding ==
    [encoded_data |-> <<>>, encoded_data_trail_zeroes |-> 0, block_int_size |-> 0,
     block_bit_offsets |-> <<>>, block_sym_sizes |-> <<>>, block_count |-> 0]

Init ==
    /\ pc = "start"
    /\ data = <<>>
    /\ file = <<>>
    /\ left = NoTable
    /\ right = NoTable
    /\ fault = "none"
    /\ equal = FALSE
    /\ enc = NoEncoding
    /\ out = <<>>
    /\ done = <<>>
    /\ bitpos = <<>>
    /\ corrupt = {}
    /\ written = <<>>

\* CodeTableAdapter(const unsigned char* data, size_t size), data drawn from D
ConstructFromDataOf(D) ==
    /\ pc = "start"
    /\ \E d \in D :
         \E frequencies \in countFrequencies(d) :
           \E o \in CodeTableAdapterFromData(d, frequencies) :
             /\ data' = d
             /\ left' = o.table
             /\ fault' = o.fault
             /\ pc' = IF o.table.built THEN "built" ELSE "fault_data"
    /\ UNCHANGED <<file, right, equal>>
    /\ UNCHANGED decodeVars

ConstructFromData == ConstructFromDataOf(DataInputs)

\* operator<<(os, left)
Serialize ==
    /\ pc = "built"
    /\ file' = OutputOperator(left)
    /\ pc' = "serialized"
    /\ UNCHANGED <<data, left, right, fault, equal>>
    /\ UNCHANGED decodeVars

\* CodeTableAdapter(const char* file_data, size_t size): of a caller's length
\* array, or of what operator<< wrote
ConstructFromLengths ==
    /\ pc \in {"start", "serialized"}
    /\ \E file_data \in (IF pc = "serialized" THEN {file} ELSE LengthInputs) :
         \E o \in CodeTableAdapterFromLengths(file_data) :
           /\ file' = file_data
           /\ right' = o.table
           /\ fault' = o.fault
           /\ pc' = IF ~o.table.built THEN "fault_lengths"
                    ELSE IF pc = "serialized" THEN "rebuilt" ELSE "built_lengths"
    /\ UNCHANGED <<data, left, equal>>
    /\ UNCHANGED decodeVars

\* operator==(left, right)
Compare ==
    /\ pc = "rebuilt"
    /\ equal' = EqualOperator(left, right)
    /\ pc' = "compared"
    /\ UNCHANGED <<data, file, left, right, fault>>
    /\ UNCHANGED decodeVars

\* The encoder packs data with the table; Decode is called with the stream.
EncodeAndCall ==
    /\ pc = "built"
    /\ \E block_int_size \in 1 .. MaxBlockWords :
         LET e == Encode(data, left, block_int_size)
         IN  /\ enc' = e
             /\ out' = [i \in 1 .. Len(data) |-> Unwritten]
             /\ written' = [i \in 1 .. Len(data) |-> {}]
             /\ done' = [k \in 0 .. (e.block_count - 1) |-> 0]
             /\ bitpos' = [k \in 0 .. (e.block_count - 1) |-> BlockStartBit(e, k)]
    /\ corrupt' = {}
    /\ pc' = "decoding"
    /\ UNCHANGED tableVars

\* The worker of block k decodes its next symbol.
DecodeStep(k) ==
    /\ pc = "decoding"
    /\ k \notin corrupt
    /\ done[k] < enc.block_sym_sizes[k]
    /\ LET r == DecodeSymbol(left, enc.encoded_data, bitpos[k], 1)
           at == OutputStart(enc, k) + done[k] + 1
       IN  IF r.symbol = -1
           THEN /\ corrupt' = corrupt \cup {k}
                /\ UNCHANGED <<out, written, done, bitpos>>
           ELSE /\ out' = [out EXCEPT ![at] = r.symbol]
                /\ written' = [written EXCEPT ![at] = @ \cup {k}]
                /\ done' = [done EXCEPT ![k] = @ + 1]
                /\ bitpos' = [bitpos EXCEPT ![k] = @ + r.length]
                /\ UNCHANGED corrupt
    /\ UNCHANGED <<pc, enc>>
    /\ UNCHANGED tableVars

Decode == \E k \in DOMAIN done : DecodeStep(k)

Next == ConstructFromData \/ ConstructFromLengths \/ Serialize \/ Compare

Spec == Init /\ [][Next]_vars

\* Table construction from a raw buffer, encoding, and block-parallel decoding.
ConstructForDecode == ConstructFromDataOf(DecodeDataInputs)

NextDecode == ConstructForDecode \/ EncodeAndCall \/ Decode

SpecDecode == Init /\ [][NextDecode]_vars

\* Table construction from a raw buffer alone.
ConstructForResolve == ConstructFromDataOf(ResolveDataInputs)

NextResolve == ConstructForResolve \/ Serialize

SpecResolve == Init /\ [][NextResolve]_vars

\* ------------------------------------------------- vocabulary of the claims
UsedSymbols(table) == {s \in Symbols : table.codes[s].codelength > 0}

MaxOf(S) == IF S = {} THEN 0 ELSE CHOOSE x \in S : \A y \in S : y <= x

RECURSIVE SumOver(_, _)
SumOver(S, f) ==
    IF S = {} THEN 0
    ELSE LET x == CHOOSE y \in S : TRUE
         IN  f[x] + SumOver(S \ {x}, f)

\* Kraft's inequality for the lengths len[s], s in S: the sum of 2^-len[s] is
\* at most 1, with both sides multiplied by 2^(the greatest length)
KraftHolds(S, len) ==
    LET m == MaxOf({len[s] : s \in S})
    IN  SumOver(S, [s \in S |-> 2 ^ (m - len[s])]) <= 2 ^ m

TableLengths(table) == [s \in Symbols |-> table.codes[s].codelength]

LengthsInRange(table) ==
    \A s \in UsedSymbols(table) :
        table.codes[s].codelength >= 1 /\ table.codes[s].codelength < MAXIMUM_CODELENGTH

PrefixFree(table) ==
    \A a, b \in UsedSymbols(table) :
        (a # b /\ table.codes[a].codelength <= table.codes[b].codelength)
            => RightShift(table.codes[b].code,
                          table.codes[b].codelength - table.codes[a].codelength)
                   # table.codes[a].code

Occurring == Range(data)

Frequency(s) == Cardinality({i \in 1 .. Len(data) : data[i] = s})

BuiltTables == {t \in {left, right} : t.built}

\* ------------------------------------------------------------------ claims

\* C1: every table built by either constructor whose used lengths are in
\* [1, MAXIMUM_CODELENGTH) and satisfy Kraft's inequality is prefix-free: no
\* code is a bit-prefix of another symbol's code.
C1_PrefixFreeAnyKraftTable ==
    \A t \in BuiltTables :
        (LengthsInRange(t) /\ KraftHolds(UsedSymbols(t), TableLengths(t)))
            => PrefixFree(t)

\* C2: the table built from raw data, written as its codelengths by operator<<
\* and built again from that length array, is equal to the first under
\* operator==: the second construction completes, and every symbol has the
\* same (pattern, length) in both.
C2_RoundTripViaLengths ==
    Len(data) >= 1 =>
        /\ pc # "fault_lengths"
        /\ pc \in {"rebuilt", "compared"} => \A s \in Symbols : left.codes[s] = right.codes[s]
        /\ pc = "compared" => equal

C2_Witness ==
    /\ pc = "compared"
    /\ equal
    /\ Cardinality(Occurring) >= 3
    /\ left.max_codelength >= 2
    /\ \E s \in Symbols : left.codes[s].codelength = 1

\* C3: the codelengths of every table built from a raw buffer satisfy Kraft's
\* inequality.
C3_KraftCompliance ==
    (left.built /\ Len(data) >= 1) => KraftHolds(UsedSymbols(left), TableLengths(left))

C3_Witness ==
    /\ pc = "built"
    /\ Cardinality(Occurring) >= 3
    /\ Cardinality({left.codes[s].codelength : s \in UsedSymbols(left)}) >= 2

\* C5: a buffer of one repeated byte s gives s the code (pattern 0, length 1),
\* every other symbol codelength 0, and max_codelength 1.
C5_SingleSymbolCase ==
    (left.built /\ Cardinality(Occurring) = 1)
        => \A s \in Symbols :
               IF s \in Occurring
               THEN left.codes[s] = CodeMake(1, 0) /\ left.max_codelength = 1
               ELSE left.codes[s].codelength = 0

C5_Witness ==
    /\ pc = "built"
    /\ Len(data) >= 2
    /\ Cardinality(Occurring) = 1
    /\ left.codes[data[1]].codelength = 1

C7_OptimalCodeLengths ==
    (pc = "built" /\ Cardinality(Occurring) >= 2)
        => LET frequency == [s \in Occurring |-> Frequency(s)]
               size == SumOver(Occurring,
                               [s \in Occurring |-> frequency[s] * left.codes[s].codelength])
           IN  \A alt \in [Occurring -> 1 .. MaxAltLen] :
                   KraftHolds(Occurring, alt)
                       => size <= SumOver(Occurring,
                                          [s \in Occurring |-> frequency[s] * alt[s]])

C7_Witness ==
    /\ pc = "built"
    /\ Cardinality(Occurring) >= 3
    /\ \E s, t \in Occurring :
           /\ Frequency(s) > Frequency(t)
           /\ left.codes[s].codelength < left.codes[t].codelength

\* C9: for every buffer of size 0 .. MAXIMUM_DATABLOCK_SIZE the raw-data
\* constructor completes without a failed assertion or an access to an entry
\* that does not exist, and yields a table.
C9_ResolverOnlyFailsOnOversize ==
    (pc \in {"built", "fault_data"} /\ Len(data) <= MAXIMUM_DATABLOCK_SIZE)
        => (fault = "none" /\ left.built)

\* C10: for pairs whose lengths are in [1, MAXIMUM_CODELENGTH) and satisfy
\* Kraft's inequality, every assigned pattern fits its length, 0 <= p < 2^L,
\* and the patterns of two symbols of the same length differ.
C10_PatternsFitLength ==
    \A t \in BuiltTables :
        (LengthsInRange(t) /\ KraftHolds(UsedSymbols(t), TableLengths(t)))
            => /\ \A s \in UsedSymbols(t) :
                      t.codes[s].code >= 0 /\ t.codes[s].code < 2 ^ t.codes[s].codelength
               /\ \A a, b \in UsedSymbols(t) :
                      (a # b /\ t.codes[a].codelength = t.codes[b].codelength)
                          => t.codes[a].code # t.codes[b].code

C10_Witness ==
    /\ pc = "built_lengths"
    /\ KraftHolds(UsedSymbols(right), TableLengths(right))
    /\ Cardinality(UsedSymbols(right)) >= 3
    /\ \E a, b \in UsedSymbols(right) :
           /\ a # b
           /\ right.codes[a].codelength = right.codes[b].codelength
           /\ right.codes[a].code + 1 = right.codes[b].code
    /\ \E a, b \in UsedSymbols(right) :
           /\ right.codes[a].codelength < right.codes[b].codelength
           /\ right.codes[a].code > 0

\* C4: while blocks are decoded in any order and interleaving, block k has
\* written exactly its first done[k] bytes, in the region that starts at the
\* prefix sum of the symbol counts of the blocks before it; every written byte
\* equals the byte of the original data at that place, no byte is written by
\* another block, no block is reported corrupt, and the workers leave the
\* table and the encoded words as they were.
InRegion(k, i) ==
    OutputStart(enc, k) < i /\ i <= OutputStart(enc, k) + done[k]

C4_DecodeInv ==
    pc = "decoding" =>
        /\ corrupt = {}
        /\ \A k \in DOMAIN done : done[k] <= enc.block_sym_sizes[k]
        /\ OutputStart(enc, enc.block_count) = Len(data)
        /\ \A i \in 1 .. Len(out) :
               IF \E k \in DOMAIN done : InRegion(k, i)
               THEN /\ out[i] = data[i]
                    /\ written[i] = {k \in DOMAIN done : InRegion(k, i)}
                    /\ Cardinality(written[i]) = 1
               ELSE out[i] = Unwritten /\ written[i] = {}

C4_BlockIndependence ==
    [] C4_DecodeInv /\ [][pc = "decoding" => (left' = left /\ enc' = enc)]_vars

\* block 1 is decoded to its end, from a bit offset inside its first word,
\* while block 0 has not been started
C4_Witness ==
    /\ pc = "decoding"
    /\ enc.block_count >= 2
    /\ done[0] = 0
    /\ enc.block_sym_sizes[0] >= 2
    /\ enc.block_bit_offsets[1] > 0
    /\ enc.block_sym_sizes[1] >= 1
    /\ done[1] = enc.block_sym_sizes[1]
    /\ Cardinality(Occurring) >= 3

====
